---- MODULE Spec2Model ----
(***************************************************************************)
(* A model of the MCP training server (src/src/server.py): the process-wide *)
(* configuration, the five integration tools (Notion, GitHub, OpenWeather)  *)
(* and the three file tools working on the directory "data" below the       *)
(* working directory.                                                       *)
(*                                                                          *)
(* Strings that the code inspects character by character (file names,       *)
(* paths, file contents) are sequences of one-character strings, so that    *)
(* os.path.join, str.lstrip, path resolution and the newline translation of *)
(* text-mode files are computed as the code computes them.                  *)
(*                                                                          *)
(* The file system is a POSIX one (os.sep = "/", os.linesep = "\n") without *)
(* symbolic links: a function from the absolute paths of the existing       *)
(* entries (sequences of components) to directory or regular-file nodes.    *)
(***************************************************************************)
EXTENDS Integers, Sequences, FiniteSets, TLC

VARIABLES
    config,   \* the module-level Config object (server.py:91)
    disk,     \* the file system: absolute node path -> node
    last,     \* the last tool call: tool, arguments, outcome, requests sent
    environ,  \* os.environ: the environment variables in effect
    inst,     \* the MCPTrainingServer instance constructed last
    registry, \* the tools registered with the FastMCP server: name -> handler
    proc,     \* the process: running, or exited with its exit code
    reply,    \* what the host received for its last request
    conc      \* the file tool calls in flight, suspended at their awaits

\* the variables the tool handlers themselves never write
others == <<environ, inst, registry, proc, reply, conc>>

vars == <<config, disk, last, environ, inst, registry, proc, reply, conc>>

-----------------------------------------------------------------------------
(* Bounds of the model *)

\* longest file content passed to save_file, in characters
MaxContentLen == 1

-----------------------------------------------------------------------------
(* Paths: posixpath.join, str.lstrip, splitting into components *)

\* os.path.join(a, b) on POSIX: an absolute b replaces a
PathJoin(a, b) ==
    IF b # <<>> /\ b[1] = "/" THEN b
    ELSE IF a = <<>> \/ a[Len(a)] = "/" THEN a \o b
    ELSE a \o <<"/">> \o b

\* s.lstrip(chars): drop every leading character that is in chars
RECURSIVE LStrip(_, _)
LStrip(s, chars) ==
    IF s # <<>> /\ s[1] \in chars THEN LStrip(Tail(s), chars) ELSE s

\* the components of a path string, split at every "/"
RECURSIVE SplitFrom(_, _, _)
SplitFrom(s, i, cur) ==
    IF i > Len(s) THEN <<cur>>
    ELSE IF s[i] = "/" THEN <<cur>> \o SplitFrom(s, i + 1, <<>>)
    ELSE SplitFrom(s, i + 1, Append(cur, s[i]))

Components(s) == SplitFrom(s, 1, <<>>)

\* os.getcwd(): the working directory of the process, "/w"
Getcwd == <<"/", "w">>

\* the literal "data" of the three file tools
DataName == <<"d", "a", "t", "a">>

\* safe_dir = os.path.join(os.getcwd(), "data")
SafeDir == PathJoin(Getcwd, DataName)

-----------------------------------------------------------------------------
(* The file system *)

DirNode == [kind |-> "dir", content |-> <<>>]
FileNode(bytes) == [kind |-> "file", content |-> bytes]

Root == <<>>
CwdNode == << <<"w">> >>
DataNode == << <<"w">>, DataName >>

Parent(node) == IF node = <<>> THEN <<>> ELSE SubSeq(node, 1, Len(node) - 1)

\* Path resolution of an absolute path, component by component:
\*   found      every component resolved, node is the entry
\*   creatable  only the last component is missing, its parent is a directory
\*   enoent     an inner component is missing
\*   enotdir    a component is looked up in (or a trailing "/" follows) a file
RECURSIVE Walk(_, _, _, _)
Walk(tree, comps, i, cur) ==
    IF i > Len(comps) THEN [st |-> "found", node |-> cur]
    ELSE IF tree[cur].kind # "dir" THEN [st |-> "enotdir", node |-> cur]
    ELSE LET c == comps[i] IN
         IF c = <<>> \/ c = <<".">> THEN Walk(tree, comps, i + 1, cur)
         ELSE IF c = <<".", ".">> THEN Walk(tree, comps, i + 1, Parent(cur))
         ELSE LET nxt == Append(cur, c) IN
              IF nxt \in DOMAIN tree THEN Walk(tree, comps, i + 1, nxt)
              ELSE IF i = Len(comps) THEN [st |-> "creatable", node |-> nxt]
              ELSE [st |-> "enoent", node |-> nxt]

Resolve(tree, path) == Walk(tree, Components(path), 1, Root)

\* an existence test that accepts regular files only (os.path.isfile)
PathExistsAsFile(tree, path) ==
    LET r == Resolve(tree, path) IN r.st = "found" /\ tree[r.node].kind = "file"

\* os.path.exists(path)
PathExists(tree, path) == Resolve(tree, path).st = "found"

\* os.path.isfile(path)
PathIsFile(tree, path) ==
    LET r == Resolve(tree, path) IN r.st = "found" /\ tree[r.node].kind = "file"

\* the tree with node set to n (added when absent)
Put(tree, node, n) ==
    [p \in DOMAIN tree \cup {node} |-> IF p = node THEN n ELSE tree[p]]

\* os.makedirs(path, exist_ok=True) for a path whose parent exists
Makedirs(tree, path) ==
    LET r == Resolve(tree, path) IN
    IF r.st = "found"
    THEN IF tree[r.node].kind = "dir"
         THEN [status |-> "ok", tree |-> tree]
         ELSE [status |-> "FileExistsError", tree |-> tree]
    ELSE IF r.st = "creatable"
    THEN [status |-> "ok", tree |-> Put(tree, r.node, DirNode)]
    ELSE IF r.st = "enotdir"
    THEN [status |-> "NotADirectoryError", tree |-> tree]
    ELSE [status |-> "FileNotFoundError", tree |-> tree]

\* the names of the entries directly inside a directory node
ChildNames(tree, node) ==
    {p[Len(p)] : p \in {q \in DOMAIN tree : q # <<>> /\ Parent(q) = node}}

-----------------------------------------------------------------------------
(* Text-mode file objects: open(path, 'w') / open(path, 'r'), newline=None *)

\* os.linesep
LineSep == <<"\n">>

\* writing in text mode replaces every "\n" by os.linesep
RECURSIVE WriteTranslate(_)
WriteTranslate(text) ==
    IF text = <<>> THEN <<>>
    ELSE (IF text[1] = "\n" THEN LineSep ELSE <<text[1]>>)
         \o WriteTranslate(Tail(text))

\* reading in text mode (universal newlines) turns "\r\n" and "\r" into "\n"
RECURSIVE ReadTranslate(_)
ReadTranslate(bytes) ==
    IF bytes = <<>> THEN <<>>
    ELSE IF bytes[1] = "\r"
         THEN <<"\n">> \o ReadTranslate(
                  IF Len(bytes) >= 2 /\ bytes[2] = "\n"
                  THEN SubSeq(bytes, 3, Len(bytes)) ELSE Tail(bytes))
         ELSE <<bytes[1]>> \o ReadTranslate(Tail(bytes))

\* the error open() raises for a path that does not name a regular file
OpenError(tree, r) ==
    IF r.st = "enoent" THEN "FileNotFoundError"
    ELSE IF r.st = "enotdir" THEN "NotADirectoryError"
    ELSE IF r.st = "creatable" THEN "FileNotFoundError"
    ELSE "IsADirectoryError"

\* a write that opens the file in append mode ('a'): no truncation
AppendFile(tree, path, content) ==
    LET r == Resolve(tree, path) IN
    IF r.st = "creatable"
    THEN [status |-> "ok",
          tree |-> Put(tree, r.node, FileNode(WriteTranslate(content)))]
    ELSE IF r.st = "found" /\ tree[r.node].kind = "file"
    THEN [status |-> "ok",
          tree |-> Put(tree, r.node,
                       FileNode(tree[r.node].content \o WriteTranslate(content)))]
    ELSE [status |-> OpenError(tree, r), tree |-> tree]

\* aiofiles.open(path, 'w') then f.write(content): create or truncate, write
WriteFile(tree, path, content) ==
    LET r == Resolve(tree, path) IN
    IF r.st = "creatable" \/ (r.st = "found" /\ tree[r.node].kind = "file")
    THEN [status |-> "ok",
          tree |-> Put(tree, r.node, FileNode(WriteTranslate(content)))]
    ELSE [status |-> OpenError(tree, r), tree |-> tree]

\* aiofiles.open(path, 'r') then f.read(): the whole decoded content
ReadFileText(tree, path) ==
    LET r == Resolve(tree, path) IN
    IF r.st = "found" /\ tree[r.node].kind = "file"
    THEN [status |-> "ok", value |-> ReadTranslate(tree[r.node].content)]
    ELSE [status |-> OpenError(tree, r), value |-> <<>>]

-----------------------------------------------------------------------------
(* The file tools *)

\* save_file(filename, content)
save_file(tree, filename, content) ==
    LET made == Makedirs(tree, SafeDir) IN
    IF made.status # "ok"
    THEN [tree |-> tree, status |-> made.status, value |-> <<>>]
    ELSE LET filepath == PathJoin(SafeDir, filename)
             w == WriteFile(made.tree, filepath, content)
         IN IF w.status # "ok"
            THEN [tree |-> made.tree, status |-> w.status, value |-> <<>>]
            ELSE [tree |-> w.tree, status |-> "ok",
                  value |-> <<"Content saved to ">> \o filepath]

\* read_file(filename)
read_file(tree, filename) ==
    LET filepath == PathJoin(SafeDir, filename) IN
    IF ~PathExists(tree, filepath)
    THEN [status |-> "FileNotFoundError",
          value |-> <<"File ">> \o filename \o <<" not found">>]
    ELSE ReadFileText(tree, filepath)

\* the directory list_files lists: safe_dir joined with directory.lstrip("./")
TargetDir(directory) == PathJoin(SafeDir, LStrip(directory, {".", "/"}))

\* list_files(directory), os.listdir having returned the entries as `listing`
list_files(tree, directory, listing) ==
    LET target_dir == TargetDir(directory)
        r == Resolve(tree, target_dir)
    IN IF r.st # "found"
       THEN [status |-> "FileNotFoundError",
             value |-> <<"Directory ">> \o directory \o <<" not found">>]
       ELSE IF tree[r.node].kind # "dir"
       THEN [status |-> "NotADirectoryError", value |-> <<>>]
       ELSE [status |-> "ok",
             value |-> SelectSeq(listing,
                          LAMBDA item : PathIsFile(tree, PathJoin(target_dir, item)))]

\* the orders in which os.listdir may return a set of names
Listings(names) ==
    {s \in [1..Cardinality(names) -> names] :
        \A i, j \in 1..Cardinality(names) : i # j => s[i] # s[j]}

ListdirOf(tree, directory) ==
    LET r == Resolve(tree, TargetDir(directory)) IN
    IF r.st = "found" /\ tree[r.node].kind = "dir"
    THEN Listings(ChildNames(tree, r.node)) ELSE {<<>>}

-----------------------------------------------------------------------------
(* Configuration: class Config and the module-level object `config` *)

\* An optional string is a sequence of length at most 1: <<>> is None.
None == <<>>
Some(x) == <<x>>

\* Python's `not v` for an optional string: None and "" are both falsy
Not(v) == v = None \/ v[1] = ""

\* an optional string interpolated into an f-string: None prints as "None"
Format(v) == IF v = None THEN "None" ELSE v[1]

\* an argument left out of a call takes the default of the signature
Default(arg, dflt) == IF arg = None THEN dflt ELSE arg[1]

EnvNames == {"NOTION_API_TOKEN", "NOTION_DATABASE_ID", "GITHUB_TOKEN",
             "OPENWEATHER_API_KEY"}

\* an environment variable is unset, set to the empty string, or set
EnvValues == {None, Some(""), Some("secret")}

Environments == [EnvNames -> EnvValues]

\* Config.__init__: os.getenv of the four variables, two identity constants
Config(env) ==
    [notion_api_token    |-> env["NOTION_API_TOKEN"],
     notion_database_id  |-> env["NOTION_DATABASE_ID"],
     github_token        |-> env["GITHUB_TOKEN"],
     openweather_api_key |-> env["OPENWEATHER_API_KEY"],
     server_name         |-> "mcp-training-server",
     server_version      |-> "1.0.0"]

-----------------------------------------------------------------------------
(* HTTP: one httpx.AsyncClient call and Response.raise_for_status *)

\* httpx.Response.is_success
IsSuccess(status_code) == status_code \in 200..299

\* a raise_for_status that lets informational and redirect statuses pass
RaisesForErrorStatus(response) == response.status_code \in 400..599

\* response.raise_for_status() raises HTTPStatusError
RaisesForStatus(response) == ~IsSuccess(response.status_code)

\* await client.get(...) / client.post(...): the requests the call puts on
\* the wire and the response it hands back
HttpCall(request, response) ==
    [requests |-> <<request>>, responses |-> <<response>>, response |-> response]

\* the outcome of a tool call that failed its configuration check
ConfigError(message) ==
    [status |-> "ValueError", value |-> message, requests |-> <<>>,
     responses |-> <<>>]

\* d[k] of a JSON object d is defined
HasKey(d, k) == k \in DOMAIN d

\* default of max_results in get_notion_notes and get_github_issues
DefaultMaxResults == 10

-----------------------------------------------------------------------------
(* The Notion tools *)

\* a mis-written gate that fails only when both values are missing
NotionConfigMissingBoth(cfg) ==
    Not(cfg.notion_api_token) /\ Not(cfg.notion_database_id)

\* if not self.config.notion_api_token or not self.config.notion_database_id
NotionConfigMissing(cfg) ==
    Not(cfg.notion_api_token) \/ Not(cfg.notion_database_id)

NotionHeaders(cfg) ==
    [Authorization  |-> <<"Bearer ", Format(cfg.notion_api_token)>>,
     NotionVersion  |-> "2022-06-28",
     ContentType    |-> "application/json"]

\* page["properties"]["Name"]["title"][0]["text"]["content"] is defined
PageHasTitle(page) == Len(page.properties.Name.title) >= 1

PageTitle(page) == page.properties.Name.title[1].text.content

\* response.json().get("results", [])
ResultsOf(json) == IF HasKey(json, "results") THEN json.results ELSE <<>>

\* get_notion_notes(max_results)
get_notion_notes(cfg, max_results, response) ==
    IF NotionConfigMissing(cfg)
    THEN ConfigError("Notion API token and database ID are required")
    ELSE LET request ==
                 [method  |-> "POST",
                  url     |-> <<"https://api.notion.com/v1/databases/",
                                Format(cfg.notion_database_id), "/query">>,
                  headers |-> NotionHeaders(cfg),
                  data    |-> [page_size |-> Default(max_results, DefaultMaxResults)]]
             call == HttpCall(request, response)
             resp == call.response
         IN IF RaisesForStatus(resp)
            THEN [status |-> "HTTPStatusError", value |-> resp.status_code,
                  requests |-> call.requests,
                  responses |-> call.responses]
            ELSE IF ~resp.decodable
            THEN [status |-> "JSONDecodeError", value |-> <<>>,
                  requests |-> call.requests,
                  responses |-> call.responses]
            ELSE LET results == ResultsOf(resp.json) IN
                 IF \E i \in 1..Len(results) : ~PageHasTitle(results[i])
                 THEN [status |-> "IndexError", value |-> <<>>,
                       requests |-> call.requests,
                       responses |-> call.responses]
                 ELSE [status |-> "ok",
                       value |-> [i \in 1..Len(results) |-> PageTitle(results[i])],
                       requests |-> call.requests,
                       responses |-> call.responses]

\* create_notion_note(title, content)
create_notion_note(cfg, title, content, response) ==
    IF NotionConfigMissing(cfg)
    THEN ConfigError("Notion API token and database ID are required")
    ELSE LET request ==
                 [method  |-> "POST",
                  url     |-> <<"https://api.notion.com/v1/pages">>,
                  headers |-> NotionHeaders(cfg),
                  data    |->
                     [parent |-> [database_id |-> cfg.notion_database_id],
                      properties |->
                         [Name |-> [title |-> <<[text |-> [content |-> title]]>>],
                          Content |->
                             [rich_text |-> <<[text |-> [content |-> content]]>>]]]]
             call == HttpCall(request, response)
             resp == call.response
         IN IF RaisesForStatus(resp)
            THEN [status |-> "HTTPStatusError", value |-> resp.status_code,
                  requests |-> call.requests,
                  responses |-> call.responses]
            ELSE [status |-> "ok", value |-> "Note created successfully!",
                  requests |-> call.requests,
                  responses |-> call.responses]

-----------------------------------------------------------------------------
(* The GitHub tools *)

\* if not self.config.github_token
GithubConfigMissing(cfg) == Not(cfg.github_token)

GithubHeaders(cfg) ==
    [Authorization |-> <<"token ", Format(cfg.github_token)>>,
     Accept        |-> "application/vnd.github.v3+json"]

IssueKeys == {"title", "number", "state"}

\* a mapping that hands the remote issue on as it came
IssueRecordWhole(issue) == issue

\* {"title": issue["title"], "number": issue["number"], "state": issue["state"]}
IssueRecord(issue) ==
    [title |-> issue.title, number |-> issue.number, state |-> issue.state]

\* get_github_issues(owner, repo, state, max_results)
get_github_issues(cfg, owner, repo, state, max_results, response) ==
    IF GithubConfigMissing(cfg)
    THEN ConfigError("GitHub token is required")
    ELSE LET request ==
                 [method  |-> "GET",
                  url     |-> <<"https://api.github.com/repos/", owner, "/",
                                repo, "/issues">>,
                  headers |-> GithubHeaders(cfg),
                  data    |-> [state    |-> Default(state, "open"),
                               per_page |-> Default(max_results, DefaultMaxResults)]]
             call == HttpCall(request, response)
             resp == call.response
         IN IF RaisesForStatus(resp)
            THEN [status |-> "HTTPStatusError", value |-> resp.status_code,
                  requests |-> call.requests,
                  responses |-> call.responses]
            ELSE IF ~resp.decodable
            THEN [status |-> "JSONDecodeError", value |-> <<>>,
                  requests |-> call.requests,
                  responses |-> call.responses]
            ELSE LET issues == resp.json IN
                 IF \E i \in 1..Len(issues) :
                        \E k \in IssueKeys : ~HasKey(issues[i], k)
                 THEN [status |-> "KeyError", value |-> <<>>,
                       requests |-> call.requests,
                       responses |-> call.responses]
                 ELSE [status |-> "ok",
                       value |-> [i \in 1..Len(issues) |-> IssueRecord(issues[i])],
                       requests |-> call.requests,
                       responses |-> call.responses]

\* a create_github_issue that reads the number with .get('number') and so
\* prints None for a payload without it
create_github_issue_get(cfg, owner, repo, title, body, response) ==
    IF GithubConfigMissing(cfg)
    THEN ConfigError("GitHub token is required")
    ELSE LET request ==
                 [method  |-> "POST",
                  url     |-> <<"https://api.github.com/repos/", owner, "/",
                                repo, "/issues">>,
                  headers |-> GithubHeaders(cfg),
                  data    |-> [title |-> title, body |-> Default(body, "")]]
             call == HttpCall(request, response)
             resp == call.response
         IN IF RaisesForStatus(resp)
            THEN [status |-> "HTTPStatusError", value |-> resp.status_code,
                  requests |-> call.requests,
                  responses |-> call.responses]
            ELSE IF ~resp.decodable
            THEN [status |-> "JSONDecodeError", value |-> <<>>,
                  requests |-> call.requests,
                  responses |-> call.responses]
            ELSE [status |-> "ok",
                  value |-> <<"Issue created successfully! Issue #",
                              IF HasKey(resp.json, "number")
                              THEN resp.json.number ELSE "None">>,
                  requests |-> call.requests,
                  responses |-> call.responses]

\* create_github_issue(owner, repo, title, body)
create_github_issue(cfg, owner, repo, title, body, response) ==
    IF GithubConfigMissing(cfg)
    THEN ConfigError("GitHub token is required")
    ELSE LET request ==
                 [method  |-> "POST",
                  url     |-> <<"https://api.github.com/repos/", owner, "/",
                                repo, "/issues">>,
                  headers |-> GithubHeaders(cfg),
                  data    |-> [title |-> title, body |-> Default(body, "")]]
             call == HttpCall(request, response)
             resp == call.response
         IN IF RaisesForStatus(resp)
            THEN [status |-> "HTTPStatusError", value |-> resp.status_code,
                  requests |-> call.requests,
                  responses |-> call.responses]
            ELSE IF ~resp.decodable
            THEN [status |-> "JSONDecodeError", value |-> <<>>,
                  requests |-> call.requests,
                  responses |-> call.responses]
            ELSE IF ~HasKey(resp.json, "number")
            THEN [status |-> "KeyError", value |-> <<>>,
                  requests |-> call.requests,
                  responses |-> call.responses]
            ELSE [status |-> "ok",
                  value |-> <<"Issue created successfully! Issue #",
                              resp.json.number>>,
                  requests |-> call.requests,
                  responses |-> call.responses]

-----------------------------------------------------------------------------
(* The weather tool *)

\* if not self.config.openweather_api_key
WeatherConfigMissing(cfg) == Not(cfg.openweather_api_key)

\* every data[...] lookup of the returned dict is defined
WeatherComplete(data) ==
    /\ HasKey(data, "name")
    /\ HasKey(data, "sys") /\ HasKey(data.sys, "country")
    /\ HasKey(data, "main") /\ HasKey(data.main, "temp")
    /\ HasKey(data.main, "humidity")
    /\ HasKey(data, "weather")
    /\ HasKey(data, "wind") /\ HasKey(data.wind, "speed")

\* a mapping that reads the last entry of data["weather"], not the first
WeatherRecordLastEntry(data) ==
    [city        |-> data.name,
     country     |-> data.sys.country,
     temperature |-> data.main.temp,
     description |-> data.weather[Len(data.weather)].description,
     humidity    |-> data.main.humidity,
     wind_speed  |-> data.wind.speed]

\* the dict get_weather returns
WeatherRecord(data) ==
    [city        |-> data.name,
     country     |-> data.sys.country,
     temperature |-> data.main.temp,
     description |-> data.weather[1].description,
     humidity    |-> data.main.humidity,
     wind_speed  |-> data.wind.speed]

\* f"{city},{country_code}"
Location(city, country_code) == city \o "," \o country_code

\* get_weather(city, country_code)
get_weather(cfg, city, country_code, response) ==
    IF WeatherConfigMissing(cfg)
    THEN ConfigError("OpenWeather API key is required")
    ELSE LET request ==
                 [method  |-> "GET",
                  url     |-> <<"http://api.openweathermap.org/data/2.5/weather">>,
                  headers |-> <<>>,
                  data    |-> [q     |-> Location(city, Default(country_code, "US")),
                               appid |-> cfg.openweather_api_key,
                               units |-> "metric"]]
             call == HttpCall(request, response)
             resp == call.response
         IN IF RaisesForStatus(resp)
            THEN [status |-> "HTTPStatusError", value |-> resp.status_code,
                  requests |-> call.requests,
                  responses |-> call.responses]
            ELSE IF ~resp.decodable
            THEN [status |-> "JSONDecodeError", value |-> <<>>,
                  requests |-> call.requests,
                  responses |-> call.responses]
            ELSE IF ~WeatherComplete(resp.json)
            THEN [status |-> "KeyError", value |-> <<>>,
                  requests |-> call.requests,
                  responses |-> call.responses]
            ELSE IF Len(resp.json.weather) = 0
            THEN [status |-> "IndexError", value |-> <<>>,
                  requests |-> call.requests,
                  responses |-> call.responses]
            ELSE [status |-> "ok", value |-> WeatherRecord(resp.json),
                  requests |-> call.requests,
                  responses |-> call.responses]

-----------------------------------------------------------------------------
(* The inputs of the model *)

\* longest list a remote service returns (issues, Notion pages)
MaxItems == 2

\* all sequences over S of length at most n
SeqsUpTo(S, n) == UNION {[1..k -> S] : k \in 0..n}

\* a line feed (an ordinary character of a POSIX text file) and a carriage return
ContentChars == {"\n", "\r"}

\* the contents passed to save_file
Contents == SeqsUpTo(ContentChars, MaxContentLen)

\* the filename arguments of save_file and read_file:
\*   "a", "./a", "d", "d/a", "../a", "/w/a", ""
FileNames ==
    {<<"a">>, <<".", "/", "a">>, <<"d">>, <<"d", "/", "a">>,
     <<".", ".", "/", "a">>, <<"/", "w", "/", "a">>, <<>>}

\* the directory arguments of list_files:
\*   ".", "./", "d", "./d", "..", "a", "d/../..", ".d", "/d"
Directories ==
    {<<".">>, <<".", "/">>, <<"d">>, <<".", "/", "d">>, <<".", ".">>, <<"a">>,
     <<"d", "/", ".", ".", "/", ".", ".">>, <<".", "d">>, <<"/", "d">>}

\* the file systems the process may be started on: the working directory
\* alone, or with a data directory that holds a subdirectory "d"
BareTree == (Root :> DirNode) @@ (CwdNode :> DirNode)
SubdirTree ==
    BareTree @@ (DataNode :> DirNode) @@ (Append(DataNode, <<"d">>) :> DirNode)

InitialTrees == {BareTree, SubdirTree}

\* the environment of a process started with none of the variables set
NoEnv == [n \in EnvNames |-> None]

\* the statuses the services answer: 200 to a query, 200 or 201 to a creation
QueryStatuses == {200}
CreateStatuses == {200, 201}
FailureStatuses == {301, 404, 500}

JsonResponses(statuses, payloads) ==
    [status_code : statuses, decodable : {TRUE}, json : payloads]

\* a success response whose body is not JSON
BadBodyResponses ==
    [status_code : QueryStatuses, decodable : {FALSE}, json : {<<>>}]

\* a response with a non-success status; the tools never read its body
FailureResponses ==
    [status_code : FailureStatuses, decodable : {FALSE}, json : {<<>>}]

\* issues as the GitHub API returns them, and one without its "state"
RemoteIssues ==
    [title : {"Test Issue 1", "Test Issue 2"}, number : {7},
     state : {"open", "closed"}, body : {"text"}]
    \cup {[title |-> "Test Issue 1", number |-> 7, body |-> "text"]}

GithubListResponses ==
    JsonResponses(QueryStatuses, SeqsUpTo(RemoteIssues, MaxItems))
    \cup BadBodyResponses \cup FailureResponses

GithubCreateResponses ==
    JsonResponses(CreateStatuses,
                  {[number |-> 123, title |-> "t"], [message |-> "queued"]})
    \cup BadBodyResponses \cup FailureResponses

\* Notion pages: the title property is a list of 0, 1 or 2 text fragments
Fragment(s) == [text |-> [content |-> s]]
PageTitles ==
    {<<>>, <<Fragment("A")>>, <<Fragment("B")>>, <<Fragment("A"), Fragment("B")>>}
RemotePages == [properties : [Name : [title : PageTitles]]]

NotionQueryResponses ==
    JsonResponses(QueryStatuses,
                  [results : SeqsUpTo(RemotePages, MaxItems)]
                  \cup {[object |-> "list"]})
    \cup BadBodyResponses \cup FailureResponses

NotionCreateResponses ==
    JsonResponses(CreateStatuses, {[object |-> "page"]})
    \cup BadBodyResponses \cup FailureResponses

WeatherEntries == [description : {"clear sky", "rain"}]
WeatherPayloads ==
    [name : {"New York", "London"}, sys : {[country |-> "GB"]},
     main : {[temp |-> "20.5", humidity |-> "65"]},
     weather : {<<>>} \cup [1..1 -> WeatherEntries] \cup [1..2 -> WeatherEntries],
     wind : {[speed |-> "5.2"]}]
    \cup {[name |-> "London", sys |-> [country |-> "GB"],
           main |-> [temp |-> "20.5"],
           weather |-> <<[description |-> "rain"]>>, wind |-> [speed |-> "5.2"]],
          [cod |-> "200"]}

WeatherResponses ==
    JsonResponses(QueryStatuses, WeatherPayloads)
    \cup BadBodyResponses \cup FailureResponses

Cities == {"New York", "London"}
CountryCodes == {None, Some("GB")}
MaxResultsArgs == {None, Some(1)}
\* (state, max_results) of get_github_issues: both defaulted, both given
IssueQueryArgs == {<<None, None>>, <<Some("closed"), Some(1)>>}

-----------------------------------------------------------------------------
(* get_server_info *)

\* Python's `a and b` on optional strings: a when a is falsy, b otherwise
And(a, b) == IF Not(a) THEN a ELSE b

\* a truth test that asks `v is not None` and so counts "" as present
IsNotNone(v) == v # None
\* bool(v)
Bool(v) == ~Not(v)

\* the values datetime.now(timezone.utc).isoformat() takes
Timestamps == {"2025-01-01T00:00:00+00:00", "2025-01-01T00:00:01+00:00"}

get_server_info(cfg, now) ==
    [status |-> "ok",
     value |-> [server_name |-> cfg.server_name,
                server_version |-> cfg.server_version,
                timestamp |-> now,
                config_status |->
                    [notion_configured |->
                         Bool(And(cfg.notion_api_token, cfg.notion_database_id)),
                     github_configured |-> Bool(cfg.github_token),
                     weather_configured |-> Bool(cfg.openweather_api_key)]],
     requests |-> <<>>, responses |-> <<>>]

-----------------------------------------------------------------------------
(* Module load and class MCPTrainingServer *)

MaxInstances == 2

\* the tools setup_tools defines, in the order it registers them
ToolNames ==
    <<"get_notion_notes", "create_notion_note", "get_github_issues",
      "create_github_issue", "get_weather", "save_file", "read_file",
      "list_files", "get_server_info">>

\* the tool registry of the FastMCP object `server` right after line 97
EmptyRegistry == [name \in {} |-> 0]

\* a registration that rebinds a name already registered
AddToolRebinding(reg, name, handler) ==
    [n \in DOMAIN reg \cup {name} |-> IF n = name THEN handler ELSE reg[n]]

\* @server.tool() applied to a function: FastMCP registers it under the
\* function's name, and keeps the tool it already has when the name is taken
\* (it logs "Tool already exists")
AddTool(reg, name, handler) ==
    IF name \in DOMAIN reg THEN reg
    ELSE [n \in DOMAIN reg \cup {name} |-> IF n = name THEN handler ELSE reg[n]]

RECURSIVE RegisterFrom(_, _, _)
RegisterFrom(reg, self, i) ==
    IF i > Len(ToolNames) THEN reg
    ELSE RegisterFrom(AddTool(reg, ToolNames[i],
                              [owner |-> self, name |-> ToolNames[i]]),
                      self, i + 1)

\* setup_tools: the nine closures of instance `self`, registered in order
setup_tools(reg, self) == RegisterFrom(reg, self, 1)

\* MCPTrainingServer.__init__: the instance holds the module-level config
\* object.  `environ` is not a field of the instance: it remembers the
\* environment in effect when the instance was constructed.
MCPTrainingServer(self, cfg, e) ==
    [id |-> self, config |-> cfg, environ |-> e]

\* the module was imported and is not being run as a script
Imported == [state |-> "imported", how |-> "none", code |-> 0]

\* lines 91-353 executed under environment e: config, server, mcp_server
ModuleLoaded(e) ==
    /\ environ = e
    /\ config = Config(e)
    /\ inst = MCPTrainingServer(1, config, e)
    /\ registry = setup_tools(EmptyRegistry, 1)

\* no file tool call is suspended at an await
NoTasks == <<>>

-----------------------------------------------------------------------------
(* Actions: one per tool call, from the request to its result *)

NoCall ==
    [tool |-> "none", args |-> <<>>, status |-> "none", value |-> <<>>,
     requests |-> <<>>, responses |-> <<>>]

\* the record of a file tool call (file tools send no request)
FileCall(tool, args, r) ==
    [tool |-> tool, args |-> args, status |-> r.status, value |-> r.value,
     requests |-> <<>>, responses |-> <<>>]

\* the record of an integration tool call, with the requests it sent and the
\* responses it received
NetCall(tool, args, r) ==
    [tool |-> tool, args |-> args, status |-> r.status, value |-> r.value,
     requests |-> r.requests, responses |-> r.responses]

SaveFile(filename, content) ==
    LET r == save_file(disk, filename, content) IN
    /\ disk' = r.tree
    /\ last' = FileCall("save_file", <<filename, content>>, r)
    /\ UNCHANGED <<config, others>>

\* a read_file that creates the data directory on demand, as save_file does
ReadFileMakingDir(filename) ==
    /\ disk' = Makedirs(disk, SafeDir).tree
    /\ last' = FileCall("read_file", <<filename>>, read_file(disk', filename))
    /\ UNCHANGED <<config, others>>

ReadFile(filename) ==
    /\ last' = FileCall("read_file", <<filename>>, read_file(disk, filename))
    /\ UNCHANGED <<config, disk, others>>

ListFiles(directory) ==
    \E listing \in ListdirOf(disk, directory) :
        /\ last' = FileCall("list_files", <<directory>>,
                            list_files(disk, directory, listing))
        /\ UNCHANGED <<config, disk, others>>

GetNotionNotes(max_results) ==
    \E response \in NotionQueryResponses :
        /\ last' = NetCall("get_notion_notes", <<max_results>>,
                           get_notion_notes(inst.config, max_results, response))
        /\ UNCHANGED <<config, disk, others>>

CreateNotionNote(title, content) ==
    \E response \in NotionCreateResponses :
        /\ last' = NetCall("create_notion_note", <<title, content>>,
                           create_notion_note(inst.config, title, content, response))
        /\ UNCHANGED <<config, disk, others>>

GetGithubIssues(owner, repo, state, max_results) ==
    \E response \in GithubListResponses :
        /\ last' = NetCall("get_github_issues", <<owner, repo, state, max_results>>,
                           get_github_issues(inst.config, owner, repo, state,
                                             max_results, response))
        /\ UNCHANGED <<config, disk, others>>

CreateGithubIssue(owner, repo, title, body) ==
    \E response \in GithubCreateResponses :
        /\ last' = NetCall("create_github_issue", <<owner, repo, title, body>>,
                           create_github_issue(inst.config, owner, repo, title, body,
                                               response))
        /\ UNCHANGED <<config, disk, others>>

GetWeather(city, country_code) ==
    \E response \in WeatherResponses :
        /\ last' = NetCall("get_weather", <<city, country_code>>,
                           get_weather(inst.config, city, country_code, response))
        /\ UNCHANGED <<config, disk, others>>

GetServerInfo ==
    \E now \in Timestamps :
        /\ last' = FileCall("get_server_info", <<>>,
                            get_server_info(inst.config, now))
        /\ UNCHANGED <<config, disk, others>>

-----------------------------------------------------------------------------
(* Specifications *)

\* the file tools, on every initial file system
FileInit ==
    /\ ModuleLoaded(NoEnv)
    /\ disk \in InitialTrees
    /\ last = NoCall
    /\ proc = Imported
    /\ reply = <<>>
    /\ conc = NoTasks

FileNext ==
    \/ \E f \in FileNames, c \in Contents : SaveFile(f, c)
    \/ \E f \in FileNames : ReadFile(f)
    \/ \E d \in Directories : ListFiles(d)

FileSpec == FileInit /\ [][FileNext]_vars

\* the integration tools, under every environment
NetInit ==
    /\ \E e \in Environments : ModuleLoaded(e)
    /\ disk = BareTree
    /\ last = NoCall
    /\ proc = Imported
    /\ reply = <<>>
    /\ conc = NoTasks

NetNext ==
    \/ \E m \in MaxResultsArgs : GetNotionNotes(m)
    \/ \E t \in {"Title"}, c \in {"Body"} : CreateNotionNote(t, c)
    \/ \E a \in IssueQueryArgs : GetGithubIssues("owner", "repo", a[1], a[2])
    \/ \E b \in {None, Some("Body")} : CreateGithubIssue("owner", "repo", "Title", b)
    \/ \E c \in Cities, cc \in CountryCodes : GetWeather(c, cc)
    \/ GetServerInfo

NetSpec == NetInit /\ [][NetNext]_vars

\* the environments the tests put in place with patch.dict(os.environ, ...):
\* all four variables, the two Notion variables, none
FullEnv == [n \in EnvNames |-> Some("secret")]
NotionEnv ==
    [n \in EnvNames |->
        IF n \in {"NOTION_API_TOKEN", "NOTION_DATABASE_ID"}
        THEN Some("secret") ELSE None]
PatchedEnvironments == {NoEnv, NotionEnv, FullEnv}

\* the embedding process changes its environment (patch.dict entered or left)
PatchEnv(e) ==
    /\ environ # e
    /\ environ' = e
    /\ UNCHANGED <<config, disk, last, inst, registry, proc, reply, conc>>

\* a constructor that builds a fresh Config from the current environment and
\* rebinds the module-level name to it
ConstructReloading ==
    /\ inst.id < MaxInstances
    /\ config' = Config(environ)
    /\ inst' = MCPTrainingServer(inst.id + 1, config', environ)
    /\ registry' = setup_tools(registry, inst.id + 1)
    /\ UNCHANGED <<disk, last, environ, proc, reply, conc>>

\* MCPTrainingServer(): self.config = config; self.setup_tools()
Construct ==
    /\ inst.id < MaxInstances
    /\ inst' = MCPTrainingServer(inst.id + 1, config, environ)
    /\ registry' = setup_tools(registry, inst.id + 1)
    /\ UNCHANGED <<config, disk, last, environ, proc, reply, conc>>

\* environment changes, constructions and tool calls after the module load
ConfigInit ==
    /\ \E e \in PatchedEnvironments : ModuleLoaded(e)
    /\ disk = BareTree
    /\ last = NoCall
    /\ proc = Imported
    /\ reply = <<>>
    /\ conc = NoTasks

ConfigNext ==
    \/ \E e \in PatchedEnvironments : PatchEnv(e)
    \/ Construct
    \/ NetNext

ConfigSpec == ConfigInit /\ [][ConfigNext]_vars

\* the process run as a script has reached server.run(transport="stdio")
Serving == [state |-> "serving", how |-> "none", code |-> 0]

\* the ways server.run ends: it returns (the host closed the channel), the
\* user interrupts it, an Exception escapes it, or a BaseException that is
\* neither (asyncio.CancelledError) escapes it
RunOutcomes == {"return", "KeyboardInterrupt", "Exception", "CancelledError"}

\* a main block whose `except Exception` logs and falls off the end
MainExitLogOnly(how) ==
    IF how \in {"return", "KeyboardInterrupt", "Exception"} THEN 0 ELSE 1

\* the exit status of the main block: 0 when run returns or the
\* KeyboardInterrupt is caught, sys.exit(1) in `except Exception`, and the
\* interpreter's status 1 for an exception no clause catches
MainExit(how) ==
    IF how \in {"return", "KeyboardInterrupt"} THEN 0 ELSE 1

Exited(how) == [state |-> "exited", how |-> how, code |-> MainExit(how)]

\* a dispatcher that lets the error of a handler escape the run loop
AfterCallEscaping(p, call) ==
    IF call.status = "ok" THEN p ELSE Exited(call.status)

\* the process after the dispatcher has handled a call: it keeps serving,
\* whatever the handler raised
AfterCall(p, call) == p

\* the dispatcher shapes the outcome of a call for the host: a result, or a
\* failure carrying the error
Deliver(call) ==
    [tool |-> call.tool, isError |-> call.status # "ok",
     error |-> IF call.status = "ok" THEN "none" ELSE call.status,
     content |-> call.value]

\* the host keeps the last two responses it received
Respond(received, response) ==
    IF received = <<>> THEN <<response>>
    ELSE <<received[Len(received)], response>>

\* the dispatcher found no tool of that name: the handler is not invoked
UnknownTool(name) ==
    [tool |-> name, args |-> <<>>, status |-> "UnknownTool", value |-> <<>>,
     requests |-> <<>>, responses |-> <<>>]

\* one tool call through the dispatcher: `call` is the handler's outcome and
\* `tree` the file system it leaves
CallTool(call, tree) ==
    /\ proc.state = "serving"
    /\ call.tool \in DOMAIN registry \/ call.status = "UnknownTool"
    /\ last' = call
    /\ disk' = tree
    /\ reply' = Respond(reply, Deliver(call))
    /\ proc' = AfterCall(proc, call)
    /\ UNCHANGED <<config, environ, inst, registry, conc>>

\* server.run ends and the main block ends the process
RunEnds(how) ==
    /\ proc.state = "serving"
    /\ proc' = Exited(how)
    /\ UNCHANGED <<config, disk, last, environ, inst, registry, reply, conc>>

\* the names the host asks for that no tool has
UnknownNames == {"delete_file"}
\* the files the host saves and reads while the process serves
ServedFiles == {<<"a">>}

ServeInit ==
    /\ \E e \in {NoEnv, FullEnv} : ModuleLoaded(e)
    /\ disk = BareTree
    /\ last = NoCall
    /\ proc = Serving
    /\ reply = <<>>
    /\ conc = NoTasks

ServeNext ==
    \/ \E f \in ServedFiles, c \in Contents :
           LET r == save_file(disk, f, c)
           IN CallTool(FileCall("save_file", <<f, c>>, r), r.tree)
    \/ \E f \in ServedFiles :
           CallTool(FileCall("read_file", <<f>>, read_file(disk, f)), disk)
    \/ \E c \in Cities, response \in WeatherResponses :
           CallTool(NetCall("get_weather", <<c, None>>,
                            get_weather(inst.config, c, None, response)), disk)
    \/ \E now \in Timestamps :
           CallTool(FileCall("get_server_info", <<>>,
                             get_server_info(inst.config, now)), disk)
    \/ \E n \in UnknownNames : CallTool(UnknownTool(n), disk)
    \/ \E how \in RunOutcomes : RunEnds(how)

ServeSpec == ServeInit /\ [][ServeNext]_vars

-----------------------------------------------------------------------------
(* Concurrent file tool calls: the coroutines of save_file and read_file,
   suspended at their awaits (aiofiles runs each file operation in a worker
   thread while the event loop runs the other calls) *)

\* most calls in flight or finished
MaxTasks == 2

\* what the path names when a call starts: a regular file and its content,
\* or no regular file
Snapshot(tree, path) ==
    LET r == Resolve(tree, path) IN
    IF r.st = "found" /\ tree[r.node].kind = "file"
    THEN [exists |-> TRUE, content |-> tree[r.node].content]
    ELSE [exists |-> FALSE, content |-> <<>>]

\* a call of save_file or read_file: its arguments, the await it is suspended
\* at (pc), the file its file object is open on (node), its outcome, and what
\* its path named when it started
Task(tool, filename, content, pc, status, before) ==
    [tool |-> tool, filename |-> filename, content |-> content, pc |-> pc,
     node |-> <<>>, status |-> status, value |-> <<>>, before |-> before]

\* closing the file object of save_file flushes its buffer: the bytes are
\* written from the object's position 0 and what the file holds beyond them
\* stays
Flush(tree, node, bytes) ==
    LET old == tree[node].content IN
    Put(tree, node, FileNode(bytes \o SubSeq(old, Len(bytes) + 1, Len(old))))

\* the next await of a suspended call completes
Advance(tree, t) ==
    LET path == PathJoin(SafeDir, t.filename)
        r == Resolve(tree, path)
    IN IF t.tool = "save_file" /\ t.pc = "open"
       THEN \* aiofiles.open(filepath, 'w'): create or truncate
            LET w == WriteFile(tree, path, <<>>) IN
            IF w.status # "ok"
            THEN [tree |-> tree,
                  task |-> [t EXCEPT !.pc = "done", !.status = w.status]]
            ELSE [tree |-> w.tree,
                  task |-> [t EXCEPT !.pc = "write",
                                     !.node = Resolve(w.tree, path).node]]
       ELSE IF t.tool = "save_file" /\ t.pc = "write"
       THEN \* await f.write(content): the text goes to the object's buffer
            [tree |-> tree, task |-> [t EXCEPT !.pc = "close"]]
       ELSE IF t.tool = "save_file"
       THEN \* leaving `async with`: flush and close
            [tree |-> Flush(tree, t.node, WriteTranslate(t.content)),
             task |-> [t EXCEPT !.pc = "done", !.status = "ok",
                                !.value = <<"Content saved to ">> \o path]]
       ELSE IF t.pc = "open"
       THEN \* aiofiles.open(filepath, 'r')
            IF r.st = "found" /\ tree[r.node].kind = "file"
            THEN [tree |-> tree,
                  task |-> [t EXCEPT !.pc = "read", !.node = r.node]]
            ELSE [tree |-> tree,
                  task |-> [t EXCEPT !.pc = "done",
                                     !.status = OpenError(tree, r)]]
       ELSE \* await f.read(), close, return content
            [tree |-> tree,
             task |-> [t EXCEPT !.pc = "done", !.status = "ok",
                                !.value = ReadTranslate(tree[t.node].content)]]

\* save_file is called: it runs to its first await (makedirs, join)
StartSave(filename, content) ==
    LET made == Makedirs(disk, SafeDir)
        before == Snapshot(disk, PathJoin(SafeDir, filename))
    IN /\ Len(conc) < MaxTasks
       /\ disk' = made.tree
       /\ conc' = Append(conc,
              IF made.status = "ok"
              THEN Task("save_file", filename, content, "open", "none", before)
              ELSE Task("save_file", filename, content, "done", made.status,
                        before))
       /\ UNCHANGED <<config, last, environ, inst, registry, proc, reply>>

\* read_file is called: it runs to its first await (join, exists)
StartRead(filename) ==
    LET path == PathJoin(SafeDir, filename)
        before == Snapshot(disk, path)
    IN /\ Len(conc) < MaxTasks
       /\ conc' = Append(conc,
              IF PathExists(disk, path)
              THEN Task("read_file", filename, <<>>, "open", "none", before)
              ELSE Task("read_file", filename, <<>>, "done",
                        "FileNotFoundError", before))
       /\ UNCHANGED <<config, disk, last, environ, inst, registry, proc, reply>>

\* the event loop resumes call i
Resume(i) ==
    /\ conc[i].pc # "done"
    /\ LET a == Advance(disk, conc[i])
       IN /\ disk' = a.tree
          /\ conc' = [conc EXCEPT ![i] = a.task]
    /\ UNCHANGED <<config, last, environ, inst, registry, proc, reply>>

\* the file the concurrent calls name
SharedFiles == {<<"a">>}

\* the data directory holding data/a with some content, or not there yet
ConcTrees ==
    {BareTree}
    \cup {Put(Put(BareTree, DataNode, DirNode), Append(DataNode, <<"a">>),
              FileNode(c)) : c \in Contents}

ConcInit ==
    /\ ModuleLoaded(NoEnv)
    /\ disk \in ConcTrees
    /\ last = NoCall
    /\ proc = Imported
    /\ reply = <<>>
    /\ conc = NoTasks

ConcNext ==
    \/ \E f \in SharedFiles, c \in Contents : StartSave(f, c)
    \/ \E f \in SharedFiles : StartRead(f)
    \/ \E i \in 1..Len(conc) : Resume(i)

ConcSpec == ConcInit /\ [][ConcNext]_vars

\* the whole server
Init ==
    /\ \E e \in Environments : ModuleLoaded(e)
    /\ disk \in InitialTrees
    /\ last = NoCall
    /\ proc = Imported
    /\ reply = <<>>
    /\ conc = NoTasks

Next == FileNext \/ NetNext

Spec == Init /\ [][Next]_vars

-----------------------------------------------------------------------------
(* Properties of the integration tools, checked under NetSpec *)

\* the configuration fields an integration tool needs
Requires(tool) ==
    IF tool \in {"get_notion_notes", "create_notion_note"}
    THEN {"notion_api_token", "notion_database_id"}
    ELSE IF tool \in {"get_github_issues", "create_github_issue"}
    THEN {"github_token"}
    ELSE IF tool = "get_weather" THEN {"openweather_api_key"}
    ELSE {}

\* C1: a call of an integration tool made while one of the credentials it
\* requires is absent fails with the configuration error (ValueError) and
\* sends no request.
C1_MissingCredentialFailsBeforeRequest ==
    \A k \in Requires(last.tool) :
        config[k] = None =>
            /\ last.status = "ValueError"
            /\ Len(last.requests) = 0

\* get_notion_notes was called with the token set and the database id absent
C1_Witness ==
    /\ last.tool = "get_notion_notes"
    /\ config.notion_api_token = Some("secret")
    /\ config.notion_database_id = None
    /\ last.status = "ValueError"
    /\ last.requests = <<>>

\* C8: a tool call sends at most one request, and a call whose request was
\* answered with a non-success status ends in the HTTP status failure, never
\* in a success value.
C8_FailureStatusFailsOnce ==
    /\ Len(last.requests) <= 1
    /\ Len(last.responses) = Len(last.requests)
    /\ \A i \in 1..Len(last.responses) :
           last.responses[i].status_code \notin 200..299 =>
               last.status = "HTTPStatusError"

\* create_notion_note got a redirect status: it failed after its one request
C8_Witness ==
    /\ last.tool = "create_notion_note"
    /\ Len(last.requests) = 1
    /\ last.responses[1].status_code = 301
    /\ last.status = "HTTPStatusError"

\* every issue of a decoded response carries title, number and state
WellFormedIssues(issues) ==
    \A i \in 1..Len(issues) : {"title", "number", "state"} \subseteq DOMAIN issues[i]

\* C9: get_github_issues maps a remote list of n issues to the n records
\* {title, number, state} of those issues in the same order, and
\* get_notion_notes maps n remote pages to their n titles (the text of the
\* first entry of each page's title list) in the same order.
C9_ListToolsMapInOrder ==
    /\ (last.tool = "get_github_issues" /\ last.responses # <<>>
        /\ last.responses[1].status_code = 200 /\ last.responses[1].decodable
        /\ WellFormedIssues(last.responses[1].json)) =>
           LET issues == last.responses[1].json IN
           /\ last.status = "ok"
           /\ Len(last.value) = Len(issues)
           /\ \A i \in 1..Len(issues) :
                  /\ DOMAIN last.value[i] = {"title", "number", "state"}
                  /\ last.value[i].title = issues[i].title
                  /\ last.value[i].number = issues[i].number
                  /\ last.value[i].state = issues[i].state
    /\ (last.tool = "get_notion_notes" /\ last.status = "ok") =>
           LET json == last.responses[1].json
               results == IF "results" \in DOMAIN json THEN json.results ELSE <<>>
           IN /\ Len(last.value) = Len(results)
              /\ \A i \in 1..Len(results) :
                     last.value[i] = results[i].properties.Name.title[1].text.content

\* the two issues of the test suite came back, in their order
C9_Witness ==
    /\ last.tool = "get_github_issues"
    /\ last.status = "ok"
    /\ Len(last.value) = 2
    /\ last.value[1] = [title |-> "Test Issue 1", number |-> 7, state |-> "open"]
    /\ last.value[2] = [title |-> "Test Issue 2", number |-> 7, state |-> "closed"]

\* C10: a successful get_weather returns exactly the six keys, filled from
\* name, sys.country, main.temp, the description of the first weather entry,
\* main.humidity and wind.speed; its one request asks for "<city>,<code>",
\* the code being "US" when none is given.
C10_WeatherRecordAndQuery ==
    last.tool = "get_weather" =>
        /\ last.requests # <<>> =>
               /\ Len(last.requests) = 1
               /\ last.requests[1].data.q =
                      last.args[1] \o ","
                      \o (IF last.args[2] = None THEN "US" ELSE last.args[2][1])
        /\ last.status = "ok" =>
               LET data == last.responses[1].json IN
               /\ DOMAIN last.value =
                      {"city", "country", "temperature", "description",
                       "humidity", "wind_speed"}
               /\ last.value.city = data.name
               /\ last.value.country = data.sys.country
               /\ last.value.temperature = data.main.temp
               /\ last.value.description = data.weather[1].description
               /\ last.value.humidity = data.main.humidity
               /\ last.value.wind_speed = data.wind.speed

\* London without a country code, answered with two weather entries
C10_Witness ==
    /\ last.tool = "get_weather"
    /\ last.args = <<"London", None>>
    /\ last.status = "ok"
    /\ last.requests[1].data.q = "London,US"
    /\ Len(last.responses[1].json.weather) = 2
    /\ last.value.description = "rain"
    /\ last.responses[1].json.weather[2].description = "clear sky"

\* the tools that read the payload of the response
PayloadTools ==
    {"get_notion_notes", "get_github_issues", "create_github_issue",
     "get_weather"}

\* the last call received a success-status response
GotSuccessResponse ==
    /\ Len(last.responses) = 1
    /\ IsSuccess(last.responses[1].status_code)

\* the elements get_weather reads are not all in the payload
WeatherLacks(data) ==
    \/ {"name", "sys", "main", "weather", "wind"} \ DOMAIN data # {}
    \/ ~("country" \in DOMAIN data.sys)
    \/ {"temp", "humidity"} \ DOMAIN data.main # {}
    \/ ~("speed" \in DOMAIN data.wind)
    \/ data.weather = <<>>

\* the payload lacks an element the tool reads, other than the "results" key
\* of a Notion query
PayloadLacksElement(tool, resp) ==
    \/ ~resp.decodable
    \/ /\ resp.decodable
       /\ CASE tool = "get_weather" -> WeatherLacks(resp.json)
            [] tool = "create_github_issue" -> ~("number" \in DOMAIN resp.json)
            [] tool = "get_github_issues" ->
                   \E i \in 1..Len(resp.json) :
                       {"title", "number", "state"} \ DOMAIN resp.json[i] # {}
            [] tool = "get_notion_notes" ->
                   /\ "results" \in DOMAIN resp.json
                   /\ \E i \in 1..Len(resp.json.results) :
                          resp.json.results[i].properties.Name.title = <<>>
            [] OTHER -> FALSE

\* the decoded payload of a Notion query has no "results" key
LacksResults(tool, resp) ==
    /\ tool = "get_notion_notes"
    /\ resp.decodable
    /\ ~("results" \in DOMAIN resp.json)

\* C11 as stated: whenever a tool that reads the payload receives a
\* success-status response whose payload lacks an element the tool expects
\* (an undecodable body, a missing key, an empty title or weather list, a
\* Notion query payload without "results"), the call fails: it never returns
\* a result.
C11_LackingPayloadFails ==
    (/\ last.tool \in PayloadTools
     /\ GotSuccessResponse
     /\ \/ PayloadLacksElement(last.tool, last.responses[1])
        \/ LacksResults(last.tool, last.responses[1]))
    => last.status \notin {"ok", "none"}

\* C11 amended: a success-status response whose payload lacks an element the
\* tool reads makes the call fail with KeyError, IndexError or
\* JSONDecodeError, with two exceptions: a decoded Notion query payload
\* without "results" makes get_notion_notes return the empty list, and
\* create_notion_note, which never reads the body, succeeds on every
\* success-status response.
C11_LackingPayloadFailsExceptResults ==
    /\ (/\ last.tool \in PayloadTools
        /\ GotSuccessResponse
        /\ PayloadLacksElement(last.tool, last.responses[1]))
       => last.status \in {"KeyError", "IndexError", "JSONDecodeError"}
    /\ (/\ GotSuccessResponse
        /\ LacksResults(last.tool, last.responses[1]))
       => (last.status = "ok" /\ last.value = <<>>)
    /\ (last.tool = "create_notion_note" /\ GotSuccessResponse)
       => last.status = "ok"

\* create_github_issue received 201 with a payload without "number" and failed
C11_Witness ==
    /\ last.tool = "create_github_issue"
    /\ GotSuccessResponse
    /\ last.responses[1].decodable
    /\ ~("number" \in DOMAIN last.responses[1].json)
    /\ last.status = "KeyError"

\* the flag get_server_info reports for the service a tool belongs to
ReportedFlag(info, tool) ==
    CASE tool \in {"get_notion_notes", "create_notion_note"} ->
             info.config_status.notion_configured
      [] tool \in {"get_github_issues", "create_github_issue"} ->
             info.config_status.github_configured
      [] tool = "get_weather" -> info.config_status.weather_configured

IntegrationTools ==
    {"get_notion_notes", "create_notion_note", "get_github_issues",
     "create_github_issue", "get_weather"}

\* C12: get_server_info agrees with the tools' own configuration checks.
\* Whenever a get_server_info call and a call of an integration tool follow
\* one another (in either order), the flag reported for the tool's service is
\* true exactly when the tool passes its configuration check (does not fail
\* with ValueError); and a credential that is the empty string is never
\* reported as configured.
C12_InfoAgreesWithGates ==
    [][/\ (last.tool = "get_server_info" /\ last'.tool \in IntegrationTools)
          => (ReportedFlag(last.value, last'.tool)
                  <=> last'.status # "ValueError")
       /\ (last.tool \in IntegrationTools /\ last'.tool = "get_server_info")
          => (ReportedFlag(last'.value, last.tool)
                  <=> last.status # "ValueError")
       /\ last'.tool = "get_server_info"
          => LET status == last'.value.config_status
                 cfg == inst'.config
             IN /\ (Some("") \in {cfg.notion_api_token, cfg.notion_database_id})
                       => ~status.notion_configured
                /\ cfg.github_token = Some("") => ~status.github_configured
                /\ cfg.openweather_api_key = Some("")
                       => ~status.weather_configured]_vars

\* get_server_info ran with the Notion token set and the database id empty,
\* and reported Notion as not configured
C12_Witness ==
    /\ last.tool = "get_server_info"
    /\ inst.config.notion_api_token = Some("secret")
    /\ inst.config.notion_database_id = Some("")
    /\ ~last.value.config_status.notion_configured
    /\ inst.config.github_token = Some("secret")
    /\ last.value.config_status.github_configured

-----------------------------------------------------------------------------
(* Properties of the configuration and the registry, checked under ConfigSpec *)

\* C13 as stated: an instance constructed while the four environment
\* variables are set is configured, whatever the environment was when the
\* module was loaded: its get_server_info reports the three flags true and
\* its integration tools pass their configuration check.
C13_InstanceReflectsEnvironment ==
    [][(inst.environ = FullEnv /\ inst' = inst /\ environ' = environ)
       => /\ last'.tool = "get_server_info"
             => /\ last'.value.config_status.notion_configured
                /\ last'.value.config_status.github_configured
                /\ last'.value.config_status.weather_configured
          /\ last'.tool \in IntegrationTools => last'.status # "ValueError"]_vars

\* C14: the configuration is read-only after the module load.  No step (an
\* environment change, a construction, a tool call) changes a field of the
\* module-level configuration, and every instance holds that configuration.
C14_ConfigNeverChanges ==
    [][config' = config /\ inst'.config = config]_vars

\* a second instance exists, the environment now differs from the one the
\* configuration was read from, and a tool has been called
C14_Witness ==
    /\ inst.id > 1
    /\ Config(environ) # config
    /\ inst.environ # NoEnv
    /\ last.tool = "get_server_info"

\* C18: the registry is fixed after the module load.  In every state it
\* holds exactly the nine tool names, each bound to the closure the first
\* instance (mcp_server) registered.
C18_RegistryFixed ==
    /\ DOMAIN registry = {ToolNames[i] : i \in 1..Len(ToolNames)}
    /\ Cardinality(DOMAIN registry) = 9
    /\ \A n \in DOMAIN registry : registry[n] = [owner |-> 1, name |-> n]

\* a later instance has been constructed and a tool called after that
C18_Witness ==
    /\ inst.id = MaxInstances
    /\ last.tool = "get_weather"
    /\ registry["get_weather"].owner = 1

-----------------------------------------------------------------------------
(* Properties of the serving process, checked under ServeSpec *)

\* the step is the end of the run loop, not a tool call
RunEndStep == proc'.state = "exited" /\ proc'.how \in RunOutcomes

\* C15: every tool call made while the process serves is answered and leaves
\* the process serving.  The host receives a failure carrying the error when
\* the handler raised (configuration-missing, not-found, upstream-failure,
\* malformed-response) and the result otherwise, also when the call before
\* it failed; no handler error ends the process.
C15_FailureDeliveredProcessServes ==
    [][(proc.state = "serving" /\ ~RunEndStep)
       => /\ proc'.state = "serving"
          /\ reply' # <<>>
          /\ LET response == reply'[Len(reply')]
             IN /\ response.tool = last'.tool
                /\ response.isError = (last'.status # "ok")
                /\ response.isError => response.error = last'.status
                /\ ~response.isError => response.content = last'.value]_vars

\* the host received a failure for a missing credential and then the result
\* of the next call, and the process is serving
C15_Witness ==
    /\ proc.state = "serving"
    /\ Len(reply) = 2
    /\ reply[1].isError /\ reply[1].error = "ValueError"
    /\ ~reply[2].isError /\ reply[2].tool = "read_file"
    /\ last.tool = "read_file" /\ last.status = "ok"

\* C16: the exit status is 0 when the run loop returned or was interrupted
\* by the user, 1 when any other fault escaped it, and never anything else.
C16_ExitStatus ==
    proc.state = "exited"
    => /\ proc.code \in {0, 1}
       /\ proc.code = 0 <=> proc.how \in {"return", "KeyboardInterrupt"}
       /\ proc.code = 1 <=> proc.how \in {"Exception", "CancelledError"}

\* an Exception escaped the run loop after a tool call had been answered, and
\* the process ended with status 1
C16_Witness ==
    /\ proc.state = "exited"
    /\ proc.how = "Exception"
    /\ proc.code = 1
    /\ reply # <<>>

-----------------------------------------------------------------------------
(* Properties of concurrent file tool calls, checked under ConcSpec *)

Saves == {i \in 1..Len(conc) : conc[i].tool = "save_file"}

\* what read_file may return by C17: the content the file had before one of
\* the saves (or when the read started) or the content one of them writes,
\* as text-mode reading decodes it
ReadableContents(i) ==
    {ReadTranslate(conc[i].before.content)}
    \cup {ReadTranslate(conc[j].before.content) :
              j \in {k \in Saves : conc[k].before.exists}}
    \cup {ReadTranslate(WriteTranslate(conc[j].content)) : j \in Saves}

\* C17 as stated: a read_file(f) that ran concurrently with save_file(f, c)
\* calls on a file that existed returns, in full, the content f had before
\* one of the saves or the content one of them wrote, never something else
\* and never an error; and when all calls have finished f holds exactly the
\* content of one of the saves.
C17_ConcurrentCallsIndependent ==
    /\ \A i \in 1..Len(conc) :
           (/\ conc[i].tool = "read_file"
            /\ conc[i].pc = "done"
            /\ conc[i].before.exists)
           => /\ conc[i].status = "ok"
              /\ conc[i].value \in ReadableContents(i)
    /\ (Saves # {} /\ \A i \in 1..Len(conc) : conc[i].pc = "done")
       => \E j \in Saves :
              Snapshot(disk, PathJoin(SafeDir, conc[j].filename)).content
                  = WriteTranslate(conc[j].content)

-----------------------------------------------------------------------------
(* Properties of the file tools, checked under FileSpec *)

\* node lies in the directory dir or below it
IsUnder(node, dir) ==
    Len(node) >= Len(dir) /\ SubSeq(node, 1, Len(dir)) = dir

\* a file name of one component, without a directory part
PlainName(filename) ==
    filename # <<>> /\ \A i \in 1..Len(filename) : filename[i] # "/"

\* C2: a read_file(f) that follows a successful save_file(f, c) returns
\* exactly c, and a list_files(".") that follows it contains f (f being a
\* plain file name, which is what list_files returns).
C2_SaveThenReadAndList ==
    [][(last.tool = "save_file" /\ last.status = "ok") =>
          /\ (last'.tool = "read_file" /\ last'.args[1] = last.args[1]) =>
                 (last'.status = "ok" /\ last'.value = last.args[2])
          /\ (last'.tool = "list_files" /\ last'.args[1] = <<".">>
              /\ PlainName(last.args[1])) =>
                 /\ last'.status = "ok"
                 /\ \E i \in 1..Len(last'.value) : last'.value[i] = last.args[1]
      ]_vars

\* C3: after a successful save_file(f, c) the entry that data/f names is a
\* regular file whose content is exactly c, whatever it held before (so c2
\* replaces c1, and c is not appended to c); the call creates no entry besides
\* that file and the data directory, and saving the same f and c again
\* changes nothing.
C3_SaveOverwrites ==
    [][(last'.tool = "save_file" /\ last'.status = "ok") =>
          LET r == Resolve(disk', PathJoin(SafeDir, last'.args[1])) IN
          /\ r.st = "found"
          /\ disk'[r.node] = [kind |-> "file", content |-> last'.args[2]]
          /\ (DOMAIN disk') \ (DOMAIN disk) \subseteq {r.node, DataNode}
          /\ (last.tool = "save_file" /\ last.status = "ok"
              /\ last.args = last'.args) => disk' = disk
      ]_vars

\* "a" was saved with a non-empty content, and data/a holds that content
C3_Witness ==
    /\ last.tool = "save_file"
    /\ last.status = "ok"
    /\ last.args = << <<"a">>, <<"\n">> >>
    /\ Append(DataNode, <<"a">>) \in DOMAIN disk
    /\ disk[Append(DataNode, <<"a">>)].content = <<"\n">>

\* C4: the entry a successful save_file writes, read_file reads or
\* list_files lists lies in the data directory or below it.
C4_FileToolsStayInDataRoot ==
    /\ (last.tool \in {"save_file", "read_file"} /\ last.status = "ok") =>
           IsUnder(Resolve(disk, PathJoin(SafeDir, last.args[1])).node, DataNode)
    /\ (last.tool = "list_files" /\ last.status = "ok") =>
           IsUnder(Resolve(disk, TargetDir(last.args[1])).node, DataNode)

\* C5: read_file fails with the not-found error when the resolved path does
\* not exist, and returns the content of the entry in every other case.
C5_ReadFileTwoOutcomes ==
    last.tool = "read_file" =>
        LET r == Resolve(disk, PathJoin(SafeDir, last.args[1])) IN
        IF r.st # "found"
        THEN last.status = "FileNotFoundError"
        ELSE /\ last.status = "ok"
             /\ last.value = ReadTranslate(disk[r.node].content)

\* C5 as amended: read_file has three outcomes. It fails with the not-found
\* error when the resolved path does not exist, fails with the is-a-directory
\* error of open() when the path is a directory, and returns the whole
\* content of the file, as text-mode reading decodes it, when the path is a
\* regular file.
C5_ReadFileThreeOutcomes ==
    last.tool = "read_file" =>
        LET r == Resolve(disk, PathJoin(SafeDir, last.args[1])) IN
        IF r.st # "found"
        THEN last.status = "FileNotFoundError"
        ELSE IF disk[r.node].kind = "dir"
        THEN last.status = "IsADirectoryError"
        ELSE /\ last.status = "ok"
             /\ last.value = ReadTranslate(disk[r.node].content)

\* read_file was called on the name of a subdirectory of data
C5_Witness ==
    /\ last.tool = "read_file"
    /\ last.args = << <<"d">> >>
    /\ disk[Append(DataNode, <<"d">>)].kind = "dir"
    /\ last.status = "IsADirectoryError"

\* the names of the regular files directly inside a directory node
RegularChildren(tree, node) ==
    {p[Len(p)] : p \in {q \in DOMAIN tree :
                           /\ q # <<>>
                           /\ Parent(q) = node
                           /\ tree[q].kind = "file"}}

\* C6: list_files fails with the not-found error when no directory exists at
\* the resolved path, and otherwise returns exactly the names of the regular
\* files directly inside that directory, each once.
C6_ListFilesContract ==
    last.tool = "list_files" =>
        LET r == Resolve(disk, TargetDir(last.args[1])) IN
        IF r.st = "found" /\ disk[r.node].kind = "dir"
        THEN /\ last.status = "ok"
             /\ {last.value[i] : i \in 1..Len(last.value)}
                    = RegularChildren(disk, r.node)
             /\ Len(last.value) = Cardinality(RegularChildren(disk, r.node))
        ELSE last.status = "FileNotFoundError"

\* C7: save_file succeeds from every file system state, whenever its
\* filename does not name a directory, and returns the confirmation with the
\* path it wrote.
C7_SaveFileAlwaysSucceeds ==
    last.tool = "save_file" =>
        LET filepath == PathJoin(SafeDir, last.args[1])
            r == Resolve(disk, filepath)
        IN ~(r.st = "found" /\ disk[r.node].kind = "dir") =>
               /\ last.status = "ok"
               /\ last.value = <<"Content saved to ">> \o filepath

\* the entries that are new in `after` or differ from what `before` holds
Changed(before, after) ==
    {p \in DOMAIN after : p \notin DOMAIN before \/ after[p] # before[p]}

\* C19: read_file and list_files change nothing, whether they succeed or
\* fail: the directories, the files and their contents are the same after the
\* call as before, so neither creates the data directory; only save_file
\* creates it, and save_file(f, c) removes nothing, adds at most the data
\* directory and the entry f names, and leaves every other entry as it was.
C19_OnlySaveFileWrites ==
    [][/\ last'.tool \in {"read_file", "list_files"} => disk' = disk
       /\ (DataNode \notin DOMAIN disk /\ DataNode \in DOMAIN disk')
          => last'.tool = "save_file"
       /\ last'.tool = "save_file"
          => /\ DOMAIN disk \subseteq DOMAIN disk'
             /\ DataNode \in DOMAIN disk => disk'[DataNode] = disk[DataNode]
             /\ \A p \in Changed(disk, disk') \ {DataNode} :
                    p = Resolve(disk', PathJoin(SafeDir, last'.args[1])).node
      ]_vars

\* list_files failed on a file system without the data directory and did not
\* create it
C19_Witness ==
    /\ last.tool = "list_files"
    /\ last.args = << <<".">> >>
    /\ last.status = "FileNotFoundError"
    /\ DataNode \notin DOMAIN disk

\* s without the prefix, when it starts with it (str.removeprefix)
RemovePrefix(s, prefix) ==
    IF Len(s) >= Len(prefix) /\ SubSeq(s, 1, Len(prefix)) = prefix
    THEN SubSeq(s, Len(prefix) + 1, Len(s)) ELSE s

\* C20: list_files removes one leading "./" from its argument and nothing
\* more.  A call that succeeds lists the directory that the argument without
\* that prefix names under the data root, and a call fails with the not-found
\* error only when that directory does not exist; so ".d", ".." and "/d" do
\* not list what "d" or "." list.
C20_StripsOnlyDotSlash ==
    last.tool = "list_files" =>
        LET want == Resolve(disk, PathJoin(SafeDir,
                                RemovePrefix(last.args[1], <<".", "/">>)))
            got == Resolve(disk, TargetDir(last.args[1]))
        IN /\ last.status = "ok" => (want.st = "found" /\ want.node = got.node)
           /\ last.status = "FileNotFoundError" => want.st # "found"

====
